---- MODULE Spec2Model ----
(***************************************************************************)
(* Planner_injector/plugin.py: a TTL cache of per-user affinity records    *)
(* (UserInfoCacheManager), the fetcher and enrichment handler that fill it *)
(* (UserInfoGet.post_api / UserInfoGet.execute), and the installation of a *)
(* wrapper around BrainPlanner.build_planner_prompt (patch,                *)
(* _patch_planner).                                                        *)
(*                                                                         *)
(* Python values are modelled as follows.  None is the record None.  The   *)
(* module flags is_enabled / allow_user_debug hold "None", "True" or       *)
(* "False".  A dict is a function whose domain is the set of its keys.     *)
(* time.time() is a clock that never runs backwards and takes its values   *)
(* in Times.  The default attitude label of the source is a CJK string     *)
(* literal; strings here are ASCII, so it is written DefaultAttitude.      *)
(***************************************************************************)
EXTENDS Integers, Sequences, FiniteSets, TLC

VARIABLES
    now,                  \* time.time()
    cache,                \* user_cache_manager._cache
    obs,                  \* the last direct Store call and what it returned
    lastSet,              \* per user id, the arguments and time of the last Store.set
    is_enabled,           \* module global is_enabled
    allow_user_debug,     \* module global allow_user_debug
    task,                 \* the invocations of UserInfoGet.execute
    fetch,                \* the last call of UserInfoGet.post_api on its own
    build_planner_prompt, \* the function bound to BrainPlanner.build_planner_prompt
    original_func,        \* module global _original_func
    installer,            \* the position of the running patch() call
    installs,             \* the number of patch() calls started
    call,                 \* the invocations of BrainPlanner.build_planner_prompt
    debug,                \* the last invocation of DebugCommand.execute
    lock,                 \* user_cache_manager._lock: the thread holding it, or 0
    thr                   \* threads calling Store.get / Store.set concurrently

vars == <<now, cache, obs, lastSet, is_enabled, allow_user_debug, task, fetch,
          build_planner_prompt, original_func, installer, installs, call,
          debug, lock, thr>>

storeVars == <<now, cache>>
storeObsVars == <<obs, lastSet>>
flagVars == <<is_enabled, allow_user_debug>>
patchVars == <<build_planner_prompt, original_func, installer, installs>>
auxVars == <<debug, lock, thr>>

-----------------------------------------------------------------------------
(* Bounds of the model *)

MaxWindows == 1        \* the clock covers MaxWindows TTL windows after the first
MaxTasks == 2          \* concurrent invocations of UserInfoGet.execute
MaxInstalls == 2       \* calls of patch()
MaxCalls == 1          \* invocations of BrainPlanner.build_planner_prompt
MaxThreads == 3        \* threads calling the Store concurrently
RecursionLimit == 3    \* nested calls the interpreter allows before RecursionError

(* Program constants *)

ttl == 3600
DefaultImpression == 0
DefaultAttitude == "yiban"

-----------------------------------------------------------------------------
(* Values *)

None == [isNone |-> TRUE]

Times == {k * ttl + d : k \in 0..MaxWindows, d \in {0, 1}}

Users == {"u1", "u2"}
Impressions == {0, 80}
Attitudes == {DefaultAttitude, "friendly"}

UserInfo(user_id, impression, attitude) ==
    [userid |-> user_id, impression |-> impression, attitude |-> attitude]

UserInfoCacheEntry(user_info, stamp) ==
    [user_info |-> user_info, stamp |-> stamp]

-----------------------------------------------------------------------------
(* UserInfoCacheManager *)

\* the expiry test of get: time.time() - cache_entry["stamp"] > self.ttl
Expired_strict(entry, t) == t - entry.stamp >= ttl
Expired(entry, t) == t - entry.stamp > ttl

\* what get(user_id) returns at time t
GetResult_stale(c, user_id, t) ==
    IF user_id \notin DOMAIN c THEN None ELSE c[user_id].user_info
GetResult(c, user_id, t) ==
    IF user_id \notin DOMAIN c THEN None
    ELSE IF Expired(c[user_id], t) THEN None
    ELSE c[user_id].user_info

\* the dict after get(user_id) at time t: an expired entry is deleted
GetCache_keep(c, user_id, t) == c
GetCache_insert(c, user_id, t) ==
    IF user_id \notin DOMAIN c
    THEN [k \in DOMAIN c \cup {user_id} |->
            IF k = user_id
            THEN UserInfoCacheEntry(UserInfo(user_id, DefaultImpression, DefaultAttitude), t)
            ELSE c[k]]
    ELSE IF Expired(c[user_id], t)
         THEN [k \in DOMAIN c \ {user_id} |-> c[k]]
         ELSE c
GetCache_touch(c, user_id, t) ==
    IF user_id \notin DOMAIN c THEN c
    ELSE IF Expired(c[user_id], t)
         THEN [k \in DOMAIN c \ {user_id} |-> c[k]]
         ELSE [c EXCEPT ![user_id].stamp = t]
GetCache(c, user_id, t) ==
    IF user_id \notin DOMAIN c THEN c
    ELSE IF Expired(c[user_id], t)
         THEN [k \in DOMAIN c \ {user_id} |-> c[k]]
         ELSE c

\* the dict after set(user_id, impression, attitude) at time t
SetCache_merge(c, user_id, impression, attitude, t) ==
    [k \in DOMAIN c \cup {user_id} |->
        IF k = user_id
        THEN UserInfoCacheEntry(
                 UserInfo(user_id, impression,
                          IF user_id \in DOMAIN c THEN c[user_id].user_info.attitude
                          ELSE attitude), t)
        ELSE c[k]]
SetCache_oldstamp(c, user_id, impression, attitude, t) ==
    [k \in DOMAIN c \cup {user_id} |->
        IF k = user_id
        THEN UserInfoCacheEntry(UserInfo(user_id, impression, attitude),
                                IF user_id \in DOMAIN c THEN c[user_id].stamp ELSE t)
        ELSE c[k]]
SetCache(c, user_id, impression, attitude, t) ==
    [k \in DOMAIN c \cup {user_id} |->
        IF k = user_id
        THEN UserInfoCacheEntry(UserInfo(user_id, impression, attitude), t)
        ELSE c[k]]

-----------------------------------------------------------------------------
(* Initial state: the module has been imported, nothing has run *)

IdleTask == [pc |-> "idle", userId |-> "", path |-> "", result |-> <<>>, exc |-> "",
             fetch_failed |-> FALSE]

IdleCall == [pc |-> "idle", target |-> None, via |-> "", original_runs |-> 0,
             at |-> 0, had |-> None, result |-> <<>>, exc |-> ""]

NoFetch == [pc |-> "idle", user_id |-> "", url |-> <<>>, resp |-> None, api |-> None]

NoDebug == [pc |-> "idle", flags |-> <<"None", "None">>, invoker |-> "", arg |-> "",
            stream_id |-> "", is_group_chat |-> FALSE, lookup |-> "", at |-> 0,
            had |-> None, impression |-> None, sent |-> <<>>, result |-> <<>>]

IdleThread == [pc |-> "idle", op |-> "", user |-> "", impression |-> 0, attitude |-> "",
               waited |-> FALSE, entry |-> None, result |-> None, order |-> 0]

NoObs == [kind |-> "none", user |-> "", at |-> 0, had |-> None, result |-> None]

InitRest ==
    /\ now = 0
    /\ cache = [k \in {} |-> None]
    /\ obs = NoObs
    /\ lastSet = [u \in Users |-> None]
    /\ is_enabled = "None"
    /\ allow_user_debug = "None"
    /\ task = [t \in 1..MaxTasks |-> IdleTask]
    /\ fetch = NoFetch
    /\ original_func = "None"
    /\ installer = "start"
    /\ installs = 1
    /\ call = [p \in 1..MaxCalls |-> IdleCall]
    /\ debug = NoDebug
    /\ lock = 0
    /\ thr = [i \in 1..MaxThreads |-> IdleThread]

\* the host class BrainPlanner defines build_planner_prompt
Init ==
    /\ InitRest
    /\ build_planner_prompt = "original"

\* the host class may also lack the attribute the plugin wants to replace
InitHost ==
    /\ InitRest
    /\ build_planner_prompt \in {"original", "missing"}

\* time passes
Tick(t) ==
    /\ t > now
    /\ now' = t
    /\ obs' = NoObs
    /\ UNCHANGED <<cache, lastSet, flagVars, task, fetch, patchVars, call, auxVars>>

-----------------------------------------------------------------------------
(* The Store called directly *)

StoreGet(user_id) ==
    /\ obs' = [kind |-> "get", user |-> user_id, at |-> now,
               had |-> IF user_id \in DOMAIN cache THEN cache[user_id] ELSE None,
               result |-> GetResult(cache, user_id, now)]
    /\ cache' = GetCache(cache, user_id, now)
    /\ UNCHANGED <<now, lastSet, flagVars, task, fetch, patchVars, call, auxVars>>

StoreSet(user_id, impression, attitude) ==
    /\ cache' = SetCache(cache, user_id, impression, attitude, now)
    /\ obs' = [kind |-> "set", user |-> user_id, at |-> now,
               had |-> IF user_id \in DOMAIN cache THEN cache[user_id] ELSE None,
               result |-> None]
    /\ lastSet' = [lastSet EXCEPT ![user_id] =
                      [impression |-> impression, attitude |-> attitude, at |-> now]]
    /\ UNCHANGED <<now, flagVars, task, fetch, patchVars, call, auxVars>>

NextStore ==
    \/ \E t \in Times : Tick(t)
    \/ \E u \in Users : StoreGet(u)
    \/ \E u \in Users, i \in Impressions, a \in Attitudes : StoreSet(u, i, a)

SpecStore == Init /\ [][NextStore]_vars

-----------------------------------------------------------------------------
(* UserInfoGet.post_api *)

\* What the remote service does with one request: no answer in time, a
\* transport failure, or a response with a status and a body.  The body is
\* not JSON ("garbage"), JSON that is no object ("list"), or a JSON object.
Statuses == {200, 201, 301, 404, 500}

JsonObjects ==
    {[k \in {} |-> 0]}
    \cup {[k \in {"impression"} |-> i] : i \in Impressions}
    \cup {[k \in {"attitude"} |-> a] : a \in Attitudes}
    \cup {[k \in {"impression", "attitude"} |-> IF k = "impression" THEN i ELSE a] :
              i \in Impressions, a \in Attitudes}

NoData == [k \in {} |-> 0]

Responses ==
    {[kind |-> "timeout", status |-> 0, json |-> "none", data |-> NoData],
     [kind |-> "transport", status |-> 0, json |-> "none", data |-> NoData]}
    \cup {[kind |-> "response", status |-> st, json |-> j, data |-> NoData] :
              st \in Statuses, j \in {"garbage", "list"}}
    \cup {[kind |-> "response", status |-> st, json |-> "dict", data |-> d] :
              st \in Statuses, d \in JsonObjects}

\* the answers the enrichment handler is run against: one per failure cause,
\* an empty object and an object with both fields
Answers ==
    {r \in Responses :
        \/ r.kind \in {"timeout", "transport"}
        \/ r.status = 500 /\ r.json = "garbage"
        \/ r.status = 200 /\ r.json \in {"garbage", "list"}
        \/ r.status = 200 /\ r.json = "dict" /\ DOMAIN r.data = {}
        \/ /\ r.status = 200 /\ r.json = "dict"
           /\ DOMAIN r.data = {"impression", "attitude"}
           /\ r.data["impression"] = 80 /\ r.data["attitude"] = "friendly"}

Returned(v) == [raised |-> FALSE, exc |-> "", value |-> v]
Raised(e) == [raised |-> TRUE, exc |-> e, value |-> <<>>]

\* dict.get(key, default)
DictGet(d, key, default) == IF key \in DOMAIN d THEN d[key] ELSE default

\* the classes an exception is an instance of
ExcBases(e) ==
    CASE e = "TimeoutException" ->
            {"TimeoutException", "TransportError", "RequestError", "HTTPError", "Exception"}
      [] e = "ConnectError" ->
            {"ConnectError", "TransportError", "RequestError", "HTTPError", "Exception"}
      [] e = "HTTPStatusError" -> {"HTTPStatusError", "HTTPError", "Exception"}
      [] e = "JSONDecodeError" -> {"JSONDecodeError", "ValueError", "Exception"}
      [] OTHER -> {e, "Exception"}

\* the body of the try block: client.post, raise_for_status, json, data.get
TryBody(resp) ==
    IF resp.kind = "timeout" THEN Raised("TimeoutException")
    ELSE IF resp.kind = "transport" THEN Raised("ConnectError")
    ELSE IF resp.status \notin 200..299 THEN Raised("HTTPStatusError")
    ELSE IF resp.json = "garbage" THEN Raised("JSONDecodeError")
    ELSE IF resp.json # "dict" THEN Raised("AttributeError")
    ELSE Returned(<<DictGet(resp.data, "impression", DefaultImpression),
                    DictGet(resp.data, "attitude", DefaultAttitude)>>)

\* post_api: the try block under its three except clauses
post_api_narrow(resp) ==
    LET r == TryBody(resp) IN
    IF ~r.raised THEN r
    ELSE IF "TimeoutException" \in ExcBases(r.exc)
         THEN Returned(<<DefaultImpression, DefaultAttitude>>)
    ELSE IF ExcBases(r.exc) \cap {"RequestError", "HTTPStatusError"} # {}
         THEN Returned(<<DefaultImpression, DefaultAttitude>>)
    ELSE IF "ValueError" \in ExcBases(r.exc)
         THEN Returned(<<DefaultImpression, DefaultAttitude>>)
    ELSE r
post_api(resp) ==
    LET r == TryBody(resp) IN
    IF ~r.raised THEN r
    ELSE IF "TimeoutException" \in ExcBases(r.exc)
         THEN Returned(<<DefaultImpression, DefaultAttitude>>)
    ELSE IF ExcBases(r.exc) \cap {"RequestError", "HTTPStatusError"} # {}
         THEN Returned(<<DefaultImpression, DefaultAttitude>>)
    ELSE IF "Exception" \in ExcBases(r.exc)
         THEN Returned(<<DefaultImpression, DefaultAttitude>>)
    ELSE r

\* post_api called on its own: the request goes out ...
FetchStart(user_id) ==
    /\ fetch.pc \in {"idle", "done"}
    /\ fetch' = [pc |-> "pending", user_id |-> user_id,
                 url |-> <<"get_info", user_id>>, resp |-> None, api |-> None]
    /\ UNCHANGED <<storeVars, storeObsVars, flagVars, task, patchVars, call, auxVars>>

\* ... and the service answers (or fails to)
FetchEnd(resp) ==
    /\ fetch.pc = "pending"
    /\ fetch' = [fetch EXCEPT !.pc = "done", !.resp = resp, !.api = post_api(resp)]
    /\ UNCHANGED <<storeVars, storeObsVars, flagVars, task, patchVars, call, auxVars>>

NextFetch ==
    \/ \E u \in Users : FetchStart(u)
    \/ \E resp \in Responses : FetchEnd(resp)

SpecFetch == Init /\ [][NextFetch]_vars

-----------------------------------------------------------------------------
(* Plugin.__init__ and UserInfoGet.execute *)

\* Python truth of a flag: None and False are false
Truthy_notFalse(flag) == flag # "False"
Truthy(flag) == flag = "True"

\* Plugin.__init__ reads the two flags from the configuration (again on
\* every construction of the plugin)
PluginInit(enabled, user_debug) ==
    /\ is_enabled' = enabled
    /\ allow_user_debug' = user_debug
    /\ UNCHANGED <<storeVars, storeObsVars, task, fetch, patchVars, call, auxVars>>

\* the messages the handler is called with: None, or a message whose
\* message_base_info dict has a user_id or has none
NoMessage == None
Messages ==
    {NoMessage}
    \cup {[message_base_info |-> [k \in {} |-> ""]]}
    \cup {[message_base_info |-> [k \in {"user_id"} |-> u]] : u \in Users}

\* str(base_info.get("user_id"))
StrUserId(base_info) ==
    IF "user_id" \in DOMAIN base_info THEN base_info["user_id"] ELSE "None"

\* the five-element tuple execute returns; its first element is the success
\* flag, its second the continue-processing flag
Result(success) == <<success, TRUE, None, None, None>>

\* execute up to its first suspension (the await of post_api) or its return;
\* invocations are numbered in the order they start
ExecBegin(t, message) ==
    /\ task[t].pc = "idle"
    /\ \A t2 \in 1..(t - 1) : task[t2].pc # "idle"
    /\ IF ~Truthy(is_enabled)
       THEN /\ task' = [task EXCEPT ![t] = [pc |-> "done", userId |-> "",
                            path |-> "disabled", result |-> Result(FALSE), exc |-> "",
                            fetch_failed |-> FALSE]]
            /\ cache' = cache
       ELSE IF message = NoMessage
       THEN /\ task' = [task EXCEPT ![t] = [pc |-> "raised", userId |-> "",
                            path |-> "raised", result |-> <<>>, exc |-> "AttributeError",
                            fetch_failed |-> FALSE]]
            /\ cache' = cache
       ELSE LET userId == StrUserId(message.message_base_info) IN
            /\ cache' = GetCache(cache, userId, now)
            /\ IF GetResult(cache, userId, now) # None
               THEN task' = [task EXCEPT ![t] = [pc |-> "done", userId |-> userId,
                                path |-> "hit", result |-> Result(TRUE), exc |-> "",
                                fetch_failed |-> FALSE]]
               ELSE task' = [task EXCEPT ![t] = [pc |-> "fetching", userId |-> userId,
                                path |-> "miss", result |-> <<>>, exc |-> "",
                                fetch_failed |-> FALSE]]
    /\ UNCHANGED <<now, storeObsVars, flagVars, fetch, patchVars, call, auxVars>>

\* post_api completes and execute runs to its end: Store.set, return
ExecFetchReturn(t, resp) ==
    /\ task[t].pc = "fetching"
    /\ LET api == post_api(resp) IN
       IF api.raised
       THEN /\ task' = [task EXCEPT ![t].pc = "raised", ![t].exc = api.exc,
                                    ![t].fetch_failed = TryBody(resp).raised]
            /\ cache' = cache
       ELSE /\ cache' = SetCache(cache, task[t].userId, api.value[1], api.value[2], now)
            /\ task' = [task EXCEPT ![t].pc = "done", ![t].result = Result(TRUE),
                                    ![t].fetch_failed = TryBody(resp).raised]
    /\ UNCHANGED <<now, storeObsVars, flagVars, fetch, patchVars, call, auxVars>>

\* the user ids execute can derive from a message
UserIds == {StrUserId(m.message_base_info) : m \in Messages \ {NoMessage}}

\* the number of post_api calls made for a user id
FetchCalls(user_id) ==
    Cardinality({t \in 1..MaxTasks : task[t].path = "miss" /\ task[t].userId = user_id})

Next ==
    \/ \E t \in Times : Tick(t)
    \/ \E en \in {"True", "False"}, dbg \in {"True", "False"} : PluginInit(en, dbg)
    \/ \E t \in 1..MaxTasks, m \in Messages : ExecBegin(t, m)
    \/ \E t \in 1..MaxTasks, resp \in Answers : ExecFetchReturn(t, resp)

Spec == Init /\ [][Next]_vars

-----------------------------------------------------------------------------
(* patch and _patch_planner *)

\* patch(): time.sleep(3) returns
PatchSleep ==
    /\ installer = "start"
    /\ installer' = "slept"
    /\ UNCHANGED <<storeVars, storeObsVars, flagVars, task, fetch,
                   build_planner_prompt, original_func, installs, call, auxVars>>

\* _original_func = BrainPlanner.build_planner_prompt; when the class has no
\* such attribute the AttributeError is caught and logged by patch
PatchCapture_bindFirst ==
    /\ installer = "slept"
    /\ build_planner_prompt' = "_patch_planner"
    /\ installer' = "captured"
    /\ UNCHANGED <<storeVars, storeObsVars, flagVars, task, fetch,
                   original_func, installs, call, auxVars>>
PatchCapture ==
    /\ installer = "slept"
    /\ IF build_planner_prompt = "missing"
       THEN /\ installer' = "logged_exception"
            /\ original_func' = original_func
       ELSE /\ original_func' = build_planner_prompt
            /\ installer' = "captured"
    /\ UNCHANGED <<storeVars, storeObsVars, flagVars, task, fetch,
                   build_planner_prompt, installs, call, auxVars>>

\* BrainPlanner.build_planner_prompt = _patch_planner
PatchBind ==
    /\ installer = "captured"
    /\ build_planner_prompt' = "_patch_planner"
    /\ installer' = "bound"
    /\ UNCHANGED <<storeVars, storeObsVars, flagVars, task, fetch,
                   original_func, installs, call, auxVars>>

\* the comparison of _original_func with the hook decides which line is logged
PatchVerify_inverted ==
    /\ installer = "bound"
    /\ installer' = IF original_func = build_planner_prompt
                    THEN "logged_success" ELSE "logged_failure"
    /\ UNCHANGED <<storeVars, storeObsVars, flagVars, task, fetch,
                   build_planner_prompt, original_func, installs, call, auxVars>>
PatchVerify ==
    /\ installer = "bound"
    /\ installer' = IF original_func # build_planner_prompt
                    THEN "logged_success" ELSE "logged_failure"
    /\ UNCHANGED <<storeVars, storeObsVars, flagVars, task, fetch,
                   build_planner_prompt, original_func, installs, call, auxVars>>

\* patch is a module-level function: a further call of it
PatchAgain ==
    /\ installer \in {"logged_success", "logged_failure", "logged_exception"}
    /\ installs < MaxInstalls
    /\ installs' = installs + 1
    /\ installer' = "start"
    /\ UNCHANGED <<storeVars, storeObsVars, flagVars, task, fetch,
                   build_planner_prompt, original_func, call, auxVars>>

\* the arguments build_planner_prompt is called with: chat_target_info is
\* None or carries a user_id
Targets == {None} \cup {[user_id |-> u] : u \in Users}

\* what the original build_planner_prompt returns
OriginalPrompt == <<[piece |-> "original_prompt"]>>
OriginalMessages == <<[piece |-> "message"]>>

\* the sentence _patch_planner appends, built from the record's fields
FavorabilityPrompt_label(user_info) ==
    [piece |-> "favorability", impression |-> user_info.impression,
     attitude |-> DefaultAttitude]
FavorabilityPrompt(user_info) ==
    [piece |-> "favorability", impression |-> user_info.impression,
     attitude |-> user_info.attitude]

\* the prompt _patch_planner returns: the original's prompt, with the
\* sentence appended when the Store gave a record
WrapperPrompt_nonzero(prompt, user_info) ==
    IF user_info # None /\ user_info.impression # 0
    THEN Append(prompt, FavorabilityPrompt(user_info))
    ELSE prompt
WrapperPrompt(prompt, user_info) ==
    IF user_info # None
    THEN Append(prompt, FavorabilityPrompt(user_info))
    ELSE prompt

\* what the call _original_func(...) inside _patch_planner runs: the wrapper
\* calling itself nests until the interpreter raises RecursionError
RECURSIVE WrapperCallee(_, _)
WrapperCallee(f, depth) ==
    IF f = "None" THEN "TypeError"
    ELSE IF f = "original" THEN "original"
    ELSE IF depth >= RecursionLimit THEN "RecursionError"
    ELSE WrapperCallee(original_func, depth + 1)

\* BrainPlanner.build_planner_prompt(...) is called: the function bound to
\* the name runs up to the await inside the original
PlannerEnter(p, target) ==
    /\ call[p].pc = "idle"
    /\ LET callee == IF build_planner_prompt = "missing" THEN "AttributeError"
                     ELSE IF build_planner_prompt = "original" THEN "original"
                     ELSE WrapperCallee(original_func, 1) IN
       IF callee = "original"
       THEN call' = [call EXCEPT ![p] = [pc |-> "in_original", target |-> target,
                         via |-> build_planner_prompt, original_runs |-> 0,
                         at |-> 0, had |-> None, result |-> <<>>, exc |-> ""]]
       ELSE call' = [call EXCEPT ![p] = [pc |-> "raised", target |-> target,
                         via |-> build_planner_prompt, original_runs |-> 0,
                         at |-> 0, had |-> None, result |-> <<>>, exc |-> callee]]
    /\ UNCHANGED <<storeVars, storeObsVars, flagVars, task, fetch, patchVars, auxVars>>

\* the original returns; under the wrapper the Store is read and the
\* sentence appended when a record is there
PlannerFinish(p) ==
    /\ call[p].pc = "in_original"
    /\ IF call[p].via = "original"
       THEN /\ call' = [call EXCEPT ![p].pc = "done", ![p].original_runs = 1,
                                    ![p].result = <<OriginalPrompt, OriginalMessages>>]
            /\ cache' = cache
       ELSE IF call[p].target = None
       THEN /\ call' = [call EXCEPT ![p].pc = "raised", ![p].original_runs = 1,
                                    ![p].exc = "AttributeError"]
            /\ cache' = cache
       ELSE LET user_id == call[p].target.user_id
                user_info == GetResult(cache, user_id, now)
                prompt == WrapperPrompt(OriginalPrompt, user_info) IN
            /\ cache' = GetCache(cache, user_id, now)
            /\ call' = [call EXCEPT ![p].pc = "done", ![p].original_runs = 1,
                                    ![p].at = now,
                                    ![p].had = IF user_id \in DOMAIN cache
                                               THEN cache[user_id] ELSE None,
                                    ![p].result = <<prompt, OriginalMessages>>]
    /\ UNCHANGED <<now, storeObsVars, flagVars, task, fetch, patchVars, auxVars>>

\* repeated installation, with one enrichment invocation filling the Store
NextInstall ==
    \/ PatchSleep
    \/ PatchCapture
    \/ PatchBind
    \/ PatchVerify
    \/ PatchAgain
    \/ \E p \in 1..MaxCalls, target \in Targets : PlannerEnter(p, target)
    \/ \E p \in 1..MaxCalls : PlannerFinish(p)
    \/ \E en \in {"True", "False"}, dbg \in {"True", "False"} : PluginInit(en, dbg)
    \/ \E m \in Messages : ExecBegin(1, m)
    \/ \E resp \in Answers : ExecFetchReturn(1, resp)

SpecInstall == Init /\ [][NextInstall]_vars

\* the steps of the one installation thread the module starts
PatchThread ==
    \/ PatchSleep
    \/ PatchCapture
    \/ PatchBind
    \/ PatchVerify

\* the plugin as it runs: the installation thread, invocations of the hook,
\* and one enrichment invocation filling the Store
NextPlanner ==
    \/ PatchThread
    \/ \E t \in Times : Tick(t)
    \/ \E p \in 1..MaxCalls, target \in Targets : PlannerEnter(p, target)
    \/ \E p \in 1..MaxCalls : PlannerFinish(p)
    \/ \E en \in {"True", "False"}, dbg \in {"True", "False"} : PluginInit(en, dbg)
    \/ \E m \in Messages : ExecBegin(1, m)
    \/ \E resp \in Answers : ExecFetchReturn(1, resp)

SpecPlanner == InitHost /\ [][NextPlanner]_vars

\* the installation thread beside invocations of the hook, on its own
NextPatch ==
    \/ PatchThread
    \/ \E t \in Times : Tick(t)
    \/ \E p \in 1..MaxCalls, target \in Targets : PlannerEnter(p, target)
    \/ \E p \in 1..MaxCalls : PlannerFinish(p)

\* the installation thread is scheduled until patch() returns
SpecPatchFair == InitHost /\ [][NextPatch]_vars /\ WF_vars(PatchThread)

-----------------------------------------------------------------------------
(* DebugCommand.execute *)

\* the chat stream a /debug message arrives on, and the optional chatid
\* argument ("" when the pattern matched none): a stream id or, as a user
\* may type one, a user id
Streams == {"s1"}
DebugArgs == {""} \cup Streams \cup Users

\* the id DebugCommand.execute passes to user_cache_manager.get
DebugLookupId_arg(qid, arg) == IF arg # "" THEN arg ELSE qid
DebugLookupId(qid, arg) == qid

\* /debug sent by user qid on chat stream `stream` with argument arg;
\* is_group_chat is what the host's get_chat_type_and_target_info answers
\* for the stream id the command resolves. The coroutine runs from the gate
\* to its first await: line 89 in a private chat (after the Store was read),
\* line 90 in a group chat. One command is followed at a time.
DebugExecute(qid, arg, stream, is_group_chat) ==
    /\ debug.pc \in {"idle", "done"}
    /\ IF ~Truthy(allow_user_debug) \/ ~Truthy(is_enabled)
       THEN /\ debug' = [NoDebug EXCEPT !.pc = "done",
                             !.flags = <<is_enabled, allow_user_debug>>,
                             !.result = <<FALSE, [text |-> "closed"], 2>>]
            /\ cache' = cache
       ELSE LET stream_id == IF arg # "" THEN arg ELSE stream
                id == DebugLookupId(qid, arg)
                base == [NoDebug EXCEPT
                             !.flags = <<is_enabled, allow_user_debug>>,
                             !.invoker = qid, !.arg = arg,
                             !.stream_id = stream_id,
                             !.is_group_chat = is_group_chat] IN
            IF ~is_group_chat
            THEN /\ cache' = GetCache(cache, id, now)
                 /\ debug' = [base EXCEPT
                        !.pc = "send_impression",
                        !.lookup = id, !.at = now,
                        !.had = IF id \in DOMAIN cache THEN cache[id] ELSE None,
                        !.impression = GetResult(cache, id, now)]
            ELSE /\ cache' = cache
                 /\ debug' = [base EXCEPT !.pc = "send_is_group_chat"]
    /\ UNCHANGED <<now, storeObsVars, flagVars, task, fetch, patchVars, call, lock, thr>>

\* the coroutine is resumed at line 89: the impression text goes out and the
\* coroutine reaches the await of line 90
DebugSendImpression ==
    /\ debug.pc = "send_impression"
    /\ debug' = [debug EXCEPT
                    !.pc = "send_is_group_chat",
                    !.sent = Append(debug.sent,
                                    [text |-> "impression", value |-> debug.impression])]
    /\ UNCHANGED <<storeVars, storeObsVars, flagVars, task, fetch, patchVars, call, lock, thr>>

\* the coroutine is resumed at line 90: the is_group_chat text goes out and
\* execute returns
DebugSendIsGroupChat ==
    /\ debug.pc = "send_is_group_chat"
    /\ debug' = [debug EXCEPT
                    !.pc = "done",
                    !.sent = Append(debug.sent,
                                    [text |-> "is_group_chat", group |-> debug.is_group_chat]),
                    !.result = <<TRUE, [text |-> "id", id |-> debug.stream_id], 2>>]
    /\ UNCHANGED <<storeVars, storeObsVars, flagVars, task, fetch, patchVars, call, lock, thr>>

\* the steps of one /debug command
DebugCommand ==
    \/ \E qid \in Users, arg \in DebugArgs, stream \in Streams, g \in BOOLEAN :
          DebugExecute(qid, arg, stream, g)
    \/ DebugSendImpression
    \/ DebugSendIsGroupChat

\* the debug command beside one enrichment invocation filling the Store
NextDebug ==
    \/ \E t \in Times : Tick(t)
    \/ \E en \in {"True", "False"}, dbg \in {"True", "False"} : PluginInit(en, dbg)
    \/ \E m \in Messages : ExecBegin(1, m)
    \/ \E resp \in Answers : ExecFetchReturn(1, resp)
    \/ DebugCommand

SpecDebug == Init /\ [][NextDebug]_vars

\* the three users of the Store side by side, under a configuration that
\* enables the feature and the debug command: one enrichment invocation, one
\* invocation of the hook, and the debug command in a private chat
NextShared ==
    \/ PatchThread
    \/ \E t \in Times : Tick(t)
    \/ PluginInit("True", "True")
    \/ \E m \in Messages : ExecBegin(1, m)
    \/ \E resp \in Answers : ExecFetchReturn(1, resp)
    \/ \E target \in Targets : PlannerEnter(1, target)
    \/ PlannerFinish(1)
    \/ \E qid \in Users, stream \in Streams : DebugExecute(qid, "", stream, FALSE)
    \/ DebugSendImpression
    \/ DebugSendIsGroupChat

SpecShared == Init /\ [][NextShared]_vars

-----------------------------------------------------------------------------
(* The Store under threads: get and set statement by statement, inside
   `with self._lock` *)

\* the (impression, attitude) pairs the threads store
Pairs == {<<DefaultImpression, DefaultAttitude>>, <<80, "friendly">>}

\* the clock readings of the threads: the start, and a time at which an
\* entry stamped at the start has expired
LockTimes == {ttl + 1}

\* threading.Lock: acquire succeeds only on a free lock (0 = free, else the
\* holder)
LockFree_open(holder) == TRUE
LockFree(holder) == holder = 0

\* the number the next acquisition of the guard gets
NextOrder == 1 + Cardinality({j \in 1..MaxThreads : thr[j].order > 0})

\* a thread calls get(user_id) and reaches `with self._lock`: it enters when
\* the lock is free and blocks when it is held; threads are numbered in the
\* order of their calls
ThreadCallGet(i, user_id) ==
    /\ thr[i].pc = "idle"
    /\ \A j \in 1..(i - 1) : thr[j].pc # "idle"
    /\ IF LockFree(lock)
       THEN /\ lock' = i
            /\ thr' = [thr EXCEPT ![i] = [IdleThread EXCEPT !.pc = "locked", !.op = "get",
                                              !.user = user_id, !.order = NextOrder]]
       ELSE /\ lock' = lock
            /\ thr' = [thr EXCEPT ![i] = [IdleThread EXCEPT !.pc = "waiting", !.op = "get",
                                              !.user = user_id, !.waited = TRUE]]
    /\ UNCHANGED <<storeVars, storeObsVars, flagVars, task, fetch, patchVars, call, debug>>

\* a thread calls set(user_id, impression, attitude) and reaches
\* `with self._lock`
ThreadCallSet(i, user_id, impression, attitude) ==
    /\ thr[i].pc = "idle"
    /\ \A j \in 1..(i - 1) : thr[j].pc # "idle"
    /\ IF LockFree(lock)
       THEN /\ lock' = i
            /\ thr' = [thr EXCEPT ![i] = [IdleThread EXCEPT !.pc = "locked", !.op = "set",
                                              !.user = user_id, !.impression = impression,
                                              !.attitude = attitude, !.order = NextOrder]]
       ELSE /\ lock' = lock
            /\ thr' = [thr EXCEPT ![i] = [IdleThread EXCEPT !.pc = "waiting", !.op = "set",
                                              !.user = user_id, !.impression = impression,
                                              !.attitude = attitude, !.waited = TRUE]]
    /\ UNCHANGED <<storeVars, storeObsVars, flagVars, task, fetch, patchVars, call, debug>>

\* a blocked thread enters the `with` block once the lock is free
LockAcquire(i) ==
    /\ thr[i].pc = "waiting"
    /\ LockFree(lock)
    /\ lock' = i
    /\ thr' = [thr EXCEPT ![i].pc = "locked", ![i].order = NextOrder]
    /\ UNCHANGED <<storeVars, storeObsVars, flagVars, task, fetch, patchVars, call, debug>>

\* get: cache_entry = self._cache.get(user_id); with none, return None and
\* leave the `with` block
GetRead(i) ==
    /\ thr[i].pc = "locked"
    /\ thr[i].op = "get"
    /\ IF thr[i].user \in DOMAIN cache
       THEN /\ thr' = [thr EXCEPT ![i].pc = "read", ![i].entry = cache[thr[i].user]]
            /\ lock' = lock
       ELSE /\ thr' = [thr EXCEPT ![i].pc = "done", ![i].result = None]
            /\ lock' = 0
    /\ UNCHANGED <<storeVars, storeObsVars, flagVars, task, fetch, patchVars, call, debug>>

\* get: the expiry test on the entry read, against the clock as it is now;
\* an unexpired entry's record is returned and the `with` block left
GetTest(i) ==
    /\ thr[i].pc = "read"
    /\ IF Expired(thr[i].entry, now)
       THEN /\ thr' = [thr EXCEPT ![i].pc = "expired"]
            /\ lock' = lock
       ELSE /\ thr' = [thr EXCEPT ![i].pc = "done", ![i].result = thr[i].entry.user_info]
            /\ lock' = 0
    /\ UNCHANGED <<storeVars, storeObsVars, flagVars, task, fetch, patchVars, call, debug>>

\* get: del self._cache[user_id]; return None, leaving the `with` block
GetDelete(i) ==
    /\ thr[i].pc = "expired"
    /\ cache' = [k \in DOMAIN cache \ {thr[i].user} |-> cache[k]]
    /\ thr' = [thr EXCEPT ![i].pc = "done", ![i].result = None]
    /\ lock' = 0
    /\ UNCHANGED <<now, storeObsVars, flagVars, task, fetch, patchVars, call, debug>>

\* set: build the record, assign the entry with the current time, and leave
\* the `with` block
SetWrite(i) ==
    /\ thr[i].pc = "locked"
    /\ thr[i].op = "set"
    /\ cache' = SetCache(cache, thr[i].user, thr[i].impression, thr[i].attitude, now)
    /\ thr' = [thr EXCEPT ![i].pc = "done"]
    /\ lock' = 0
    /\ UNCHANGED <<now, storeObsVars, flagVars, task, fetch, patchVars, call, debug>>

NextLock ==
    \/ \E t \in LockTimes : Tick(t)
    \/ \E i \in 1..MaxThreads, u \in Users : ThreadCallGet(i, u)
    \/ \E i \in 1..MaxThreads, u \in Users, pair \in Pairs :
          ThreadCallSet(i, u, pair[1], pair[2])
    \/ \E i \in 1..MaxThreads : LockAcquire(i)
    \/ \E i \in 1..MaxThreads : GetRead(i)
    \/ \E i \in 1..MaxThreads : GetTest(i)
    \/ \E i \in 1..MaxThreads : GetDelete(i)
    \/ \E i \in 1..MaxThreads : SetWrite(i)

SpecLock == Init /\ [][NextLock]_vars

-----------------------------------------------------------------------------
(* Claims *)

\* C1: from an empty Store and within one TTL window, the invocations of
\* execute for one user id call post_api exactly once in total, however they
\* interleave.
C1_OneFetchPerWindow ==
    \A u \in UserIds :
        (/\ now <= ttl
         /\ \E t \in 1..MaxTasks : task[t].userId = u /\ task[t].path \in {"hit", "miss"})
        => FetchCalls(u) = 1

\* C2: after any number of patch() calls _original_func is the original
\* build_planner_prompt, never the wrapper, and every finished invocation of
\* the hook ran the original once and appended at most one sentence.
C2_InstallIdempotent ==
    /\ original_func \in {"None", "original"}
    /\ \A p \in 1..MaxCalls :
          call[p].pc \in {"done", "raised"} => call[p].original_runs = 1
    /\ \A p \in 1..MaxCalls :
          call[p].pc = "done" => Len(call[p].result[1]) <= Len(OriginalPrompt) + 1

\* C3: a Store.get(u) made within ttl of the last Store.set(u, i, a) returns
\* exactly the record (u, i, a).
C3_GetReturnsLastSet ==
    (/\ obs.kind = "get"
     /\ lastSet[obs.user] # None
     /\ obs.at - lastSet[obs.user].at <= ttl)
    => obs.result = UserInfo(obs.user, lastSet[obs.user].impression,
                             lastSet[obs.user].attitude)

\* a get at the very end of the window of a set that replaced an older entry
C3_Witness ==
    /\ obs.kind = "get"
    /\ lastSet[obs.user] # None
    /\ lastSet[obs.user].at > 0
    /\ obs.at - lastSet[obs.user].at = ttl
    /\ obs.result = UserInfo(obs.user, 80, "friendly")

\* C4: once ttl has elapsed since the last Store.set(u, ...), Store.get(u)
\* returns absent and leaves no entry for u in the map, and whatever entry the
\* map holds for a user is the one its last set wrote (an old value never
\* comes back without a new set).
C4_ExpiredStaysAbsent ==
    /\ (/\ obs.kind = "get"
        /\ lastSet[obs.user] # None
        /\ obs.at - lastSet[obs.user].at > ttl)
       => (obs.result = None /\ obs.user \notin DOMAIN cache)
    /\ \A u \in DOMAIN cache :
          /\ lastSet[u] # None
          /\ cache[u] = UserInfoCacheEntry(
                 UserInfo(u, lastSet[u].impression, lastSet[u].attitude),
                 lastSet[u].at)

\* a second get after the expired entry was purged by an earlier get
C4_Witness ==
    /\ obs.kind = "get"
    /\ lastSet[obs.user] # None
    /\ obs.at - lastSet[obs.user].at > ttl
    /\ obs.had = None
    /\ obs.result = None

\* C5: Store.get(u) returns the stored record exactly when an entry for u
\* exists whose age is at most ttl (an age of exactly ttl is still valid).
C5_InclusiveBoundary ==
    obs.kind = "get" =>
        /\ (obs.result # None) <=> (obs.had # None /\ obs.at - obs.had.stamp <= ttl)
        /\ obs.result # None => obs.result = obs.had.user_info

\* a get of an entry whose age is exactly ttl, which is returned
C5_Witness ==
    /\ obs.kind = "get"
    /\ obs.had # None
    /\ obs.at - obs.had.stamp = ttl
    /\ obs.result # None

\* whether the Store holds an entry for the user id that has not expired
HasUnexpired(user_id) ==
    user_id \in DOMAIN cache /\ now - cache[user_id].stamp <= ttl

\* C6: an enabled invocation of execute that finds an unexpired entry for
\* its user returns at once: no post_api call, no Store.set, and the map
\* (records and stamps) is exactly as before.
C6_HitLeavesStoreAlone ==
    [][\A t \in 1..MaxTasks :
          (/\ task[t].pc = "idle"
           /\ task'[t].pc \notin {"idle", "raised"}
           /\ is_enabled = "True"
           /\ HasUnexpired(task'[t].userId))
          => (/\ task'[t].pc = "done"
              /\ task'[t].path = "hit"
              /\ cache' = cache
              /\ \A u \in UserIds : FetchCalls(u)' = FetchCalls(u))]_vars

\* an invocation that hit an entry written earlier, whose stamp is still the
\* time of that write
C6_Witness ==
    \E t \in 1..MaxTasks :
        /\ task[t].pc = "done"
        /\ task[t].path = "hit"
        /\ task[t].userId \in DOMAIN cache
        /\ cache[task[t].userId].stamp < now
        /\ \A t2 \in 1..MaxTasks \ {t} : task[t2].pc \in {"idle", "fetching"}
                                         \/ task[t2].userId # task[t].userId
                                         \/ task[t2].path = "miss"

\* C7: every invocation of execute that returns reports success: the first
\* element of its tuple is true.
C7_AlwaysReportsSuccess ==
    \A t \in 1..MaxTasks : task[t].pc = "done" => task[t].result[1] = TRUE

\* C8: with is_enabled false or still unset, an invocation of execute does no
\* work: it returns without Store.get, Store.set or post_api, and the map is
\* exactly as before.
C8_DisabledDoesNothing ==
    [][\A t \in 1..MaxTasks :
          (/\ task[t].pc = "idle"
           /\ task'[t].pc # "idle"
           /\ is_enabled # "True")
          => (/\ task'[t].pc = "done"
              /\ task'[t].path = "disabled"
              /\ cache' = cache
              /\ \A u \in UserIds : FetchCalls(u)' = FetchCalls(u))]_vars

\* an invocation that ran while the flag was still unset
C8_Witness ==
    /\ is_enabled = "None"
    /\ \E t \in 1..MaxTasks : task[t].pc = "done" /\ task[t].path = "disabled"

\* C9: execute never raises, whatever message it is given.
C9_NeverRaises ==
    \A t \in 1..MaxTasks : task[t].pc # "raised"

\* whether the remote call failed: timeout, transport or status error,
\* undecodable or malformed body
FetchFailed(resp) ==
    \/ resp.kind \in {"timeout", "transport"}
    \/ resp.status \notin 200..299
    \/ resp.json # "dict"

\* C10: for each failure cause of the remote call post_api raises nothing
\* and returns the default pair (0, default label).
C10_FailuresGiveDefault ==
    (fetch.pc = "done" /\ FetchFailed(fetch.resp))
    => fetch.api = Returned(<<0, DefaultAttitude>>)

\* a response with a 2xx status whose body is JSON but no object
C10_Witness ==
    /\ fetch.pc = "done"
    /\ fetch.resp.kind = "response"
    /\ fetch.resp.status = 200
    /\ fetch.resp.json = "list"
    /\ fetch.api = Returned(<<0, DefaultAttitude>>)

\* C11: an invocation of the installed wrapper that names a target user for
\* whom the Store holds no unexpired record (none, or an expired one) returns
\* exactly the original's (prompt, message list).
C11_TransparentWithoutRecord ==
    \A p \in 1..MaxCalls :
        (/\ call[p].pc = "done"
         /\ call[p].via = "_patch_planner"
         /\ (call[p].had = None \/ call[p].at - call[p].had.stamp > ttl))
        => call[p].result = <<OriginalPrompt, OriginalMessages>>

\* a wrapper invocation that met an expired record
C11_Witness ==
    \E p \in 1..MaxCalls :
        /\ call[p].pc = "done"
        /\ call[p].via = "_patch_planner"
        /\ call[p].had # None
        /\ call[p].at - call[p].had.stamp > ttl
        /\ call[p].result = <<OriginalPrompt, OriginalMessages>>

\* C12: an invocation of the installed wrapper for a target user with an
\* unexpired record (i, a) runs the original once and returns its prompt
\* followed by exactly one sentence built from i and a, and its message list.
C12_OneSentenceAppended ==
    \A p \in 1..MaxCalls :
        (/\ call[p].pc = "done"
         /\ call[p].via = "_patch_planner"
         /\ call[p].had # None
         /\ call[p].at - call[p].had.stamp <= ttl)
        => /\ call[p].original_runs = 1
           /\ call[p].result =
                 << OriginalPrompt \o
                      << [piece |-> "favorability",
                          impression |-> call[p].had.user_info.impression,
                          attitude |-> call[p].had.user_info.attitude] >>,
                    OriginalMessages >>

\* a wrapper invocation that met a record (80, "friendly") at the end of its
\* lifetime
C12_Witness ==
    \E p \in 1..MaxCalls :
        /\ call[p].pc = "done"
        /\ call[p].via = "_patch_planner"
        /\ call[p].had # None
        /\ call[p].at - call[p].had.stamp = ttl
        /\ call[p].had.user_info.impression = 80
        /\ Len(call[p].result[1]) = 2

\* the record Store.get gives for an entry `had` read at time `at`
Reported(had, at) ==
    IF had = None THEN None
    ELSE IF at - had.stamp > ttl THEN None
    ELSE had.user_info

\* C13 as stated: with both flags true the debug command reports the record
\* of the identifier given as argument, else of the invoking user, in every
\* kind of conversation; with a flag false it reports nothing and reads
\* nothing.
C13_ReportsArgumentOrInvoker ==
    debug.pc = "done" =>
        IF debug.flags = <<"True", "True">>
        THEN /\ debug.lookup = (IF debug.arg # "" THEN debug.arg ELSE debug.invoker)
             /\ Len(debug.sent) = 2
             /\ debug.sent[1] = [text |-> "impression",
                                 value |-> Reported(debug.had, debug.at)]
        ELSE debug.lookup = "" /\ debug.sent = <<>>

\* C13 amended: when the command starts with both flags true on a
\* conversation that is not a group, it reads the Store once, for the
\* invoking user (never for the argument, which only names the chat to
\* classify), and the record it then sends is what Store.get returned at that
\* moment, whatever happens to the flags and the Store while the command is
\* suspended in its sends; started on a group conversation, or with a flag
\* false, it reports no record and does not read the Store.
C13_ReportsInvokerInPrivate ==
    /\ debug.pc = "send_impression" =>
          /\ debug.flags = <<"True", "True">> /\ ~debug.is_group_chat
          /\ debug.lookup = debug.invoker
          /\ debug.impression = Reported(debug.had, debug.at)
          /\ debug.sent = <<>>
    /\ debug.pc = "send_is_group_chat" =>
          /\ debug.flags = <<"True", "True">>
          /\ IF debug.is_group_chat
             THEN debug.lookup = "" /\ debug.sent = <<>>
             ELSE /\ debug.lookup = debug.invoker
                  /\ debug.sent = <<[text |-> "impression",
                                     value |-> Reported(debug.had, debug.at)]>>
    /\ debug.pc = "done" =>
          IF debug.flags = <<"True", "True">> /\ ~debug.is_group_chat
          THEN /\ debug.lookup = debug.invoker
               /\ debug.sent = <<[text |-> "impression",
                                  value |-> Reported(debug.had, debug.at)],
                                 [text |-> "is_group_chat", group |-> FALSE]>>
               /\ debug.result[1] = TRUE
          ELSE /\ debug.lookup = ""
               /\ \A i \in 1..Len(debug.sent) : debug.sent[i].text # "impression"
               /\ debug.result[1] = (debug.flags = <<"True", "True">>)

\* a private-chat /debug with another user's id as argument that reported
\* the invoker's record as read at its start, after the feature was switched
\* off and the entry had expired during its sends
C13_Witness ==
    /\ debug.pc = "done"
    /\ debug.flags = <<"True", "True">>
    /\ ~debug.is_group_chat
    /\ debug.arg \in Users \ {debug.invoker}
    /\ debug.had # None
    /\ debug.sent[1].value = UserInfo(debug.invoker, 80, "friendly")
    /\ is_enabled = "False"
    /\ debug.invoker \in DOMAIN cache
    /\ Expired(cache[debug.invoker], now)

\* C14: however the installation thread interleaves with invocations of the
\* hook, an invocation that entered through the original binding returns the
\* original's result, and whenever the wrapper is bound (or running)
\* _original_func is already the original.
C14_WrapperNeverBeforeCapture ==
    /\ build_planner_prompt = "_patch_planner" => original_func = "original"
    /\ \A p \in 1..MaxCalls :
          /\ (call[p].via = "original" /\ call[p].pc = "done")
             => call[p].result = <<OriginalPrompt, OriginalMessages>>
          /\ call[p].via = "_patch_planner"
             => (original_func = "original" /\ call[p].exc \notin {"TypeError", "RecursionError"})

\* an invocation that began before the hook was replaced and finished after,
\* for a user whose record is in the Store
C14_Witness ==
    \E p \in 1..MaxCalls :
        /\ call[p].pc = "done"
        /\ call[p].via = "original"
        /\ build_planner_prompt = "_patch_planner"
        /\ call[p].target # None
        /\ call[p].target.user_id \in DOMAIN cache
        /\ call[p].result = <<OriginalPrompt, OriginalMessages>>

\* the threads whose call on user_id has taken the guard
Ordered(user_id) == {i \in 1..MaxThreads : thr[i].user = user_id /\ thr[i].order > 0}

\* C15: between a get's read of an entry and its return (expiry test and
\* delete included) the dict still holds the entry that get read, so a stale
\* get deletes only what it read; and when a set(u, i, a) took the guard after
\* a get(u) and nothing took it for u afterwards, the entry (i, a) is there
\* once both have completed.
C15_GetIsAtomic ==
    /\ \A g \in 1..MaxThreads :
          thr[g].pc \in {"read", "expired"}
          => (thr[g].user \in DOMAIN cache /\ cache[thr[g].user] = thr[g].entry)
    /\ \A g, w \in 1..MaxThreads :
          (/\ thr[g].op = "get" /\ thr[g].pc = "done"
           /\ thr[w].op = "set" /\ thr[w].pc = "done"
           /\ thr[w].user = thr[g].user
           /\ thr[w].order > thr[g].order
           /\ \A k \in Ordered(thr[w].user) : thr[k].order <= thr[w].order)
          => /\ thr[w].user \in DOMAIN cache
             /\ cache[thr[w].user].user_info =
                   UserInfo(thr[w].user, thr[w].impression, thr[w].attitude)

\* a get that deleted a stale entry while a set for the same user was waiting
\* for the guard; the set's entry is there after both
C15_Witness ==
    \E g, w \in 1..MaxThreads :
        /\ thr[g].op = "get" /\ thr[g].pc = "done"
        /\ thr[g].entry # None /\ thr[g].result = None
        /\ thr[w].op = "set" /\ thr[w].pc = "done" /\ thr[w].waited
        /\ thr[w].user = thr[g].user
        /\ thr[w].order = thr[g].order + 1
        /\ thr[w].user \in DOMAIN cache
        /\ cache[thr[w].user].user_info =
              UserInfo(thr[w].user, thr[w].impression, thr[w].attitude)
        /\ cache[thr[w].user].stamp - thr[g].entry.stamp > ttl

\* the sets on user_id that have written
Written(user_id) ==
    {i \in Ordered(user_id) : thr[i].op = "set" /\ thr[i].pc = "done"}

\* the gets on user_id that have deleted an entry
Deleted(user_id) ==
    {i \in Ordered(user_id) :
        /\ thr[i].op = "get" /\ thr[i].pc = "done"
        /\ thr[i].entry # None /\ thr[i].result = None}

\* C16: for each user the visible entry is exactly the (impression, attitude)
\* of the set that took the guard last (unless a later get removed it as
\* expired), with no field from another set; and a set's write leaves the
\* entries of all other users as they were.
C16_LastSetWins ==
    /\ [](\A u \in Users :
            \A w \in Written(u) :
               (/\ \A k \in Written(u) : thr[k].order <= thr[w].order
                /\ \A k \in Deleted(u) : thr[k].order < thr[w].order)
               => /\ u \in DOMAIN cache
                  /\ cache[u].user_info = UserInfo(u, thr[w].impression, thr[w].attitude))
    /\ [][\A i \in 1..MaxThreads :
            (thr[i].pc = "locked" /\ thr[i].op = "set" /\ thr'[i].pc = "done")
            => \A u \in Users \ {thr[i].user} :
                  /\ (u \in DOMAIN cache') = (u \in DOMAIN cache)
                  /\ u \in DOMAIN cache => cache'[u] = cache[u]]_vars

\* two sets with different pairs for one user, the second called while the
\* guard was held, then a set for the other user: the first user's entry is
\* the second set's pair
C16_Witness ==
    \E a, b, c \in 1..MaxThreads :
        /\ thr[a].op = "set" /\ thr[b].op = "set" /\ thr[c].op = "set"
        /\ thr[a].pc = "done" /\ thr[b].pc = "done" /\ thr[c].pc = "done"
        /\ thr[a].user = thr[b].user /\ thr[c].user # thr[a].user
        /\ thr[a].impression # thr[b].impression
        /\ thr[b].waited
        /\ thr[a].order < thr[b].order /\ thr[b].order < thr[c].order
        /\ thr[a].user \in DOMAIN cache
        /\ cache[thr[a].user].user_info =
              UserInfo(thr[b].user, thr[b].impression, thr[b].attitude)

\* C17: patch() runs once; nothing is captured or bound before its sleep is
\* over; it ends logged as installed (original captured, wrapper bound) or
\* logged as failed with the hook not replaced; once ended nothing changes
\* (no retry), and it always ends.
C17_InstallOnceThenTerminal ==
    /\ [](/\ installs = 1
          /\ installer = "start" =>
                (original_func = "None" /\ build_planner_prompt # "_patch_planner")
          /\ installer = "logged_success" =>
                (original_func = "original" /\ build_planner_prompt = "_patch_planner")
          /\ installer \in {"logged_failure", "logged_exception"} =>
                build_planner_prompt # "_patch_planner")
    /\ [][(installer \in {"logged_success", "logged_failure", "logged_exception"})
            => (patchVars' = patchVars)]_vars
    /\ <>(installer \in {"logged_success", "logged_failure", "logged_exception"})

\* an installation that failed on a host class without the attribute
C17_Witness ==
    /\ installer = "logged_exception"
    /\ build_planner_prompt = "missing"
    /\ original_func = "None"

\* enrichment has fetched and stored for user_id
Enriched(user_id) ==
    \E t \in 1..MaxTasks :
        task[t].pc = "done" /\ task[t].path = "miss" /\ task[t].userId = user_id

\* C18: every entry of the Store belongs to a user for whom an enrichment
\* invocation fetched and then stored; a step of the wrapper or of the debug
\* command adds no entry and changes none (it can only remove one); and get
\* gives None for every user enrichment has not stored for.
C18_OnlyEnrichmentWrites ==
    /\ [](\A u \in DOMAIN cache : Enriched(u))
    /\ [](\A u \in Users \cup UserIds : ~Enriched(u) => GetResult(cache, u, now) = None)
    /\ [][(call' # call \/ debug' # debug)
            => \A u \in DOMAIN cache' : u \in DOMAIN cache /\ cache'[u] = cache[u]]_vars

\* the wrapper and the debug command have both read the Store for a user
\* without an entry while another user's entry is there
C18_Witness ==
    \E u \in Users, p \in 1..MaxCalls :
        /\ DOMAIN cache = Users \ {u}
        /\ call[p].pc = "done" /\ call[p].via = "_patch_planner"
        /\ call[p].target = [user_id |-> u] /\ call[p].had = None
        /\ debug.pc = "done" /\ debug.lookup = u /\ debug.had = None

\* the Store holds, unexpired, the neutral default pair for user_id
HoldsDefault(c, user_id, t) ==
    /\ user_id \in DOMAIN c
    /\ ~Expired(c[user_id], t)
    /\ c[user_id].user_info = UserInfo(user_id, DefaultImpression, DefaultAttitude)

\* C19: an enrichment invocation whose fetch failed ends normally and stores
\* the pair (0, default label) stamped with the current time; while that
\* entry is unexpired an invocation that begins for the same user takes the
\* hit path without a fetch, and the wrapper's prompt for that user is the
\* original followed by the sentence with 0 and the default label.
C19_FailureStoredAsDefault ==
    [][\A t \in 1..MaxTasks :
        /\ (task[t].pc = "fetching" /\ task'[t].pc # "fetching" /\ task'[t].fetch_failed)
           => /\ task'[t].pc = "done"
              /\ task'[t].result = Result(TRUE)
              /\ task[t].userId \in DOMAIN cache'
              /\ cache'[task[t].userId] =
                    UserInfoCacheEntry(
                        UserInfo(task[t].userId, DefaultImpression, DefaultAttitude), now)
              /\ WrapperPrompt(OriginalPrompt, GetResult(cache', task[t].userId, now')) =
                    OriginalPrompt \o << [piece |-> "favorability", impression |-> 0,
                                          attitude |-> DefaultAttitude] >>
        /\ (/\ task[t].pc = "idle"
            /\ task'[t].pc # "idle"
            /\ task'[t].path \notin {"disabled", "raised"}
            /\ HoldsDefault(cache, task'[t].userId, now))
           => /\ task'[t].path = "hit"
              /\ task'[t].pc = "done"
              /\ cache' = cache
              /\ \A u \in UserIds : FetchCalls(u)' = FetchCalls(u)
              /\ WrapperPrompt(OriginalPrompt, GetResult(cache', task'[t].userId, now')) =
                    OriginalPrompt \o << [piece |-> "favorability", impression |-> 0,
                                          attitude |-> DefaultAttitude] >>
      ]_vars

\* a failed fetch for a user, then a second invocation for the same user
\* served from the stored default at the end of the entry's lifetime
C19_Witness ==
    \E t1, t2 \in 1..MaxTasks :
        /\ t1 # t2
        /\ task[t1].pc = "done" /\ task[t1].fetch_failed
        /\ task[t2].pc = "done" /\ task[t2].path = "hit"
        /\ task[t2].userId = task[t1].userId
        /\ FetchCalls(task[t1].userId) = 1
        /\ HoldsDefault(cache, task[t1].userId, now)
        /\ now - cache[task[t1].userId].stamp = ttl

\* C20: a wrapper invocation with chat_target_info = None returns the
\* original's (prompt, message list) and does not raise.
C20_NoneTargetPassesThrough ==
    \A p \in 1..MaxCalls :
        (/\ call[p].via = "_patch_planner"
         /\ call[p].target = None
         /\ call[p].pc \in {"done", "raised"})
        => (/\ call[p].pc = "done"
            /\ call[p].result = <<OriginalPrompt, OriginalMessages>>)

====
